---- MODULE Spec2Model ----
(***************************************************************************)
(* A model of src/start.py: the supervision loop of the Geyser updater,    *)
(* its three update checkers, download_and_verify, the version record and  *)
(* the management of the one child process.                                *)
(*                                                                         *)
(* The supervisor is one sequential control path (pc); the environment     *)
(* acts concurrently with it: a termination signal may arrive at any       *)
(* point (Signal) and a running child may exit at any point (ChildExit).   *)
(* Network and file-system outcomes are nondeterministic choices.          *)
(***************************************************************************)
EXTENDS Integers, Sequences, FiniteSets, TLC

(* ---------------------------- bounds ----------------------------------- *)
\* largest build number an upstream endpoint reports
MaxBuild == 2
\* size of the OS pid space the child processes are drawn from
MaxPids == 2
\* number of chunks the served payload is streamed in
MaxChunks == 2
\* largest number of entries in the "assets" list of a release
MaxAssets == 1

(* ------------------------ program constants ---------------------------- *)
\* geyser_process = None
None == 0
\* shutdown_event.wait(timeout=900)
RunWait == 900
\* shutdown_event.wait(timeout=30), lines 70 and 74
RetryWait == 30
\* geyser_process.wait(timeout=8)
GracePeriod == 8
\* versions.get(key, 0) and remote_info.get("build", 0)
DefaultBuild == 0
\* versions.get("mcxbox_broadcast", "0")
DefaultTag == "0"
\* the value of remote_info.get("tag_name") when the key is absent
NoneTag == "<None>"

GEYSER_STANDALONE_LOCATION == "/data/Geyser-Standalone.jar"
GEYSER_CONNECT_LOCATION == "/data/extensions/GeyserConnect.jar"
MC_XBOX_BROADCAST_LOCATION == "/data/extensions/MCXboxBroadcastExtension.jar"

\* the order of the calls in run_update_checks
Checkers == <<"geyser_standalone", "geyser_connect", "mcxbox_broadcast">>

Keys == {Checkers[i] : i \in 1..Len(Checkers)}

NumericKeys == {"geyser_standalone", "geyser_connect"}

Location(key) ==
    CASE key = "geyser_standalone" -> GEYSER_STANDALONE_LOCATION
      [] key = "geyser_connect" -> GEYSER_CONNECT_LOCATION
      [] key = "mcxbox_broadcast" -> MC_XBOX_BROADCAST_LOCATION

\* the download written straight into the destination
TempDest_InPlace(destination) == destination

\* destination.with_suffix(destination.suffix + ".tmp")
TempDest(destination) == destination \o ".tmp"

Destinations == {Location(k) : k \in Keys}

(* ----------------------------- payloads -------------------------------- *)
\* A file content is the sequence of the chunks written to it. The download
\* servers serve one payload, in MaxChunks chunks.
Payloads == {[i \in 1..MaxChunks |-> i]}

\* the contents a digest may be advertised for: a served payload, or something
\* else (here: the payload without its last chunk)
Advertised == Payloads \cup {SubSeq(p, 1, Len(p) - 1) : p \in Payloads}

HexDigits == <<"0", "1", "2", "3", "4", "5", "6", "7",
               "8", "9", "a", "b", "c", "d", "e", "f">>

RECURSIVE Code(_)
Code(content) ==
    IF content = <<>> THEN 0
    ELSE content[1] + 5 * Code(Tail(content))

\* hashlib.sha256(bytes).hexdigest(): lower-case hex digits; modelled as an
\* injective map from contents to two hex digits (no collisions).
Sha256Hex(content) ==
    LET n == (171 + 27 * Code(content)) % 256
    IN <<HexDigits[(n \div 16) + 1], HexDigits[(n % 16) + 1]>>

LowerChar(c) ==
    CASE c = "A" -> "a" [] c = "B" -> "b" [] c = "C" -> "c"
      [] c = "D" -> "d" [] c = "E" -> "e" [] c = "F" -> "f"
      [] OTHER -> c

UpperChar(c) ==
    CASE c = "a" -> "A" [] c = "b" -> "B" [] c = "c" -> "C"
      [] c = "d" -> "D" [] c = "e" -> "E" [] c = "f" -> "F"
      [] OTHER -> c

\* str.lower()
Lower(s) == [i \in 1..Len(s) |-> LowerChar(s[i])]

Upper(s) == [i \in 1..Len(s) |-> UpperChar(s[i])]

\* a JSON null (or other non-string) where a digest string is expected
JsonNull == <<"<null>">>

\* the digest strings upstream metadata may carry, in lower or upper case
ExpectedDigests ==
    {Sha256Hex(p) : p \in Advertised} \cup {Upper(Sha256Hex(p)) : p \in Payloads}

\* asset["digest"].replace("sha256:", "")
StripPrefix(digest) == SelectSeq(digest, LAMBDA t : t # "sha256:")

(* ------------------------------ dicts ---------------------------------- *)
EmptyDict == [k \in {} |-> 0]

\* dict.get(key, default)
Get(dict, key, default) == IF key \in DOMAIN dict THEN dict[key] ELSE default

\* versions[key] = value
Put(dict, key, value) ==
    [k \in (DOMAIN dict) \cup {key} |-> IF k = key THEN value ELSE dict[k]]

\* Path.unlink(): the file system without the file at path
Unlink(files, path) == [p \in (DOMAIN files) \ {path} |-> files[p]]

\* writing content to the file at path (created when absent)
WriteFile(files, path, content) ==
    [p \in (DOMAIN files) \cup {path} |-> IF p = path THEN content ELSE files[p]]

Exists(files, path) == path \in DOMAIN files

VARIABLES
    pc,              \* the supervisor's position in the code
    shutdown_event,  \* threading.Event: set or not
    geyser_process,  \* the Popen handle: None or the pid of the child it spawned
    alive,           \* the pids of the child processes that have not exited
    fs,              \* the artifact and temporary files: path -> content
    VERSION_FILE,    \* version.json: absent, corrupt, or a JSON object
    site,            \* which call of run_update_checks / stop_server is active
    ck,              \* index of the active checker in Checkers (0: none)
    results,         \* the list "results" of run_update_checks so far
    chk,             \* locals of the active checker
    dl,              \* locals of the active download_and_verify
    ret,             \* outcome of the call that just concluded
    wait_timeout,    \* the timeout of the shutdown_event.wait in progress (0: none)
    hist             \* history of the current run, for stating properties

vars == <<pc, shutdown_event, geyser_process, alive, fs, VERSION_FILE, site, ck,
          results, chk, dl, ret, wait_timeout, hist>>


(* ------------------------- initial state ------------------------------- *)
NoCheck == [key |-> "none", newer |-> FALSE, fetched |-> FALSE,
            remote_build |-> 0, remote_tag |-> "", assets |-> <<>>,
            downloads |-> 0, writes |-> 0]

\* left_at: the step at which the call left its try block (history)
NoDownload == [destination |-> "", expected |-> <<>>, stream |-> <<>>,
               result |-> "none", left_at |-> "none", before |-> EmptyDict]

\* sig_in_wait: the signal arrived during the wait of line 55; exit_running: the
\* child was running when the loop was left; pre_fs, pre_version: the files as
\* they were when the active checker was called; stops: the stop_server calls
\* made one right after the other, the one in progress included; sent: the
\* signals the latest stop_server call has sent to the child; start: how the
\* latest start_server call ended, "none" once a wait has returned after it;
\* sig_branch: the signal arrived between the test of line 44 and the
\* start_server call of line 48
NoHistory == [sig_in_wait |-> FALSE, exit_running |-> FALSE, pre_fs |-> EmptyDict,
              pre_version |-> [kind |-> "absent", json |-> EmptyDict],
              stops |-> 0, sent |-> <<>>, start |-> "none", sig_branch |-> FALSE]

\* A fresh data directory: no artifact, no version.json, no child.
Init ==
    /\ pc = "perm"
    /\ shutdown_event = FALSE
    /\ geyser_process = None
    /\ alive = {}
    /\ fs = EmptyDict
    /\ VERSION_FILE = [kind |-> "absent", json |-> EmptyDict]
    /\ site = "none"
    /\ ck = 0
    /\ results = <<>>
    /\ chk = NoCheck
    /\ dl = NoDownload
    /\ ret = "none"
    /\ wait_timeout = 0
    /\ hist = NoHistory

(* ------------------------ process management --------------------------- *)
\* geyser_process is not None and geyser_process.poll() is None
is_server_running == geyser_process # None /\ geyser_process \in alive

\* the return of stop_server to its caller: line 65 -> loop top, line 288 -> exit
StopReturn ==
    /\ pc' = IF site = "line288" THEN "done" ELSE "while42"
    /\ site' = "none"

\* Stop183 without the early return of lines 183-184
Stop183_NoEarlyReturn ==
    /\ pc = "stop183"
    /\ pc' = "stop190"
    /\ wait_timeout' = GracePeriod
    /\ hist' = [hist EXCEPT !.sent = Append(@, "SIGTERM")]
    /\ UNCHANGED <<shutdown_event, geyser_process, alive, fs, VERSION_FILE, site,
                   ck, results, chk, dl, ret>>

\* Stop183 with kill() in the place of terminate()
Stop183_KillFirst ==
    /\ pc = "stop183"
    /\ IF ~is_server_running
         THEN StopReturn /\ UNCHANGED <<alive, wait_timeout, hist>>
         ELSE /\ pc' = "stop190"
              /\ site' = site
              /\ alive' = alive \ {geyser_process}
              /\ wait_timeout' = GracePeriod
              /\ hist' = [hist EXCEPT !.sent = Append(@, "SIGKILL")]
    /\ UNCHANGED <<shutdown_event, geyser_process, fs, VERSION_FILE, ck, results,
                   chk, dl, ret>>

\* stop_server, lines 183-190: the early return, or terminate() followed by
\* the call of wait(timeout=8)
Stop183 ==
    /\ pc = "stop183"
    /\ IF ~is_server_running
         THEN StopReturn /\ UNCHANGED <<wait_timeout, hist>>
         ELSE /\ pc' = "stop190"
              /\ site' = site
              /\ wait_timeout' = GracePeriod
              /\ hist' = [hist EXCEPT !.sent = Append(@, "SIGTERM")]
    /\ UNCHANGED <<shutdown_event, geyser_process, alive, fs, VERSION_FILE, ck,
                   results, chk, dl, ret>>

\* stop_server, lines 189-195: wait(timeout=8) returns because the child exited,
\* or raises TimeoutExpired because it has not
Stop190 ==
    /\ pc = "stop190"
    /\ IF geyser_process \in alive
         THEN /\ pc' = "stop194"
              /\ UNCHANGED <<geyser_process, site>>
         ELSE /\ geyser_process' = None
              /\ StopReturn
    /\ wait_timeout' = 0
    /\ UNCHANGED <<shutdown_event, alive, fs, VERSION_FILE, ck, results, chk, dl,
                   ret, hist>>

\* stop_server, lines 194-195: kill(), then the handle is cleared. SIGKILL
\* cannot be caught: the child counts as exited from the moment it is sent
\* (kill() on a child that exited meanwhile sends nothing).
Stop194 ==
    /\ pc = "stop194"
    /\ alive' = alive \ {geyser_process}
    /\ hist' = IF geyser_process \in alive
                 THEN [hist EXCEPT !.sent = Append(@, "SIGKILL")]
                 ELSE hist
    /\ geyser_process' = None
    /\ StopReturn
    /\ UNCHANGED <<shutdown_event, fs, VERSION_FILE, ck, results, chk, dl, ret,
                   wait_timeout>>

\* the pid the OS gives the next child: the lowest one that is free
NewPid == CHOOSE pid \in (1..MaxPids) \ alive :
              \A other \in (1..MaxPids) \ alive : pid <= other

\* start_server without the test of lines 167-169
start_server_NoExistsCheck ==
    /\ pc = "start48"
    /\ \/ /\ (1..MaxPids) \ alive # {}
          /\ geyser_process' = NewPid
          /\ alive' = alive \cup {NewPid}
          /\ hist' = [hist EXCEPT !.start = "spawned"]
       \/ /\ UNCHANGED <<geyser_process, alive>>
          /\ hist' = [hist EXCEPT !.start = "oserror"]
    /\ pc' = "if50"
    /\ UNCHANGED <<shutdown_event, fs, VERSION_FILE, site, ck, results, chk, dl,
                   ret, wait_timeout>>

\* start_server, lines 164-178: the executable is missing, Popen succeeds, or
\* Popen raises OSError
start_server ==
    /\ pc = "start48"
    /\ \/ /\ ~Exists(fs, GEYSER_STANDALONE_LOCATION)
          /\ UNCHANGED <<geyser_process, alive>>
          /\ hist' = [hist EXCEPT !.start = "missing"]
       \/ /\ Exists(fs, GEYSER_STANDALONE_LOCATION)
          /\ (1..MaxPids) \ alive # {}
          /\ geyser_process' = NewPid
          /\ alive' = alive \cup {NewPid}
          /\ hist' = [hist EXCEPT !.start = "spawned"]
       \/ /\ Exists(fs, GEYSER_STANDALONE_LOCATION)
          /\ UNCHANGED <<geyser_process, alive>>
          /\ hist' = [hist EXCEPT !.start = "oserror"]
    /\ pc' = "if50"
    /\ UNCHANGED <<shutdown_event, fs, VERSION_FILE, site, ck, results, chk, dl,
                   ret, wait_timeout>>

(* ------------------------- the environment ----------------------------- *)
\* shutdown_handler: SIGTERM or SIGINT sets the event (a later signal sets it again)
shutdown_handler ==
    /\ pc \notin {"done", "fatal"}
    /\ ~shutdown_event
    /\ shutdown_event' = TRUE
    /\ hist' = [hist EXCEPT !.sig_in_wait = (pc = "wait55"),
                            !.sig_branch = \/ pc \in {"if44", "start48"}
                                           \/ site = "line47" /\ pc # "wait74"]
    /\ UNCHANGED <<pc, geyser_process, alive, fs, VERSION_FILE, site, ck, results,
                   chk, dl, ret, wait_timeout>>

\* the child exits by itself: a crash, or its reaction to SIGTERM
ChildExit ==
    /\ \E pid \in alive : alive' = alive \ {pid}
    /\ UNCHANGED <<pc, shutdown_event, geyser_process, fs, VERSION_FILE, site, ck,
                   results, chk, dl, ret, wait_timeout, hist>>

(* ----------------------------- main ------------------------------------ *)
\* check_permissions, lines 209-222: the marker file is written and removed, or
\* the write fails and the program exits with status 1
check_permissions ==
    /\ pc = "perm"
    /\ pc' \in {"while42", "fatal"}
    /\ UNCHANGED <<shutdown_event, geyser_process, alive, fs, VERSION_FILE, site,
                   ck, results, chk, dl, ret, wait_timeout, hist>>

\* the start of run_update_checks at the given call site
BeginChecks(at) ==
    /\ pc' = "ck_begin"
    /\ site' = at
    /\ ck' = 1
    /\ results' = <<>>
    /\ hist' = hist

\* LeaveLoop without line 288: the program exits as soon as main returns
LeaveLoop_NoFinalStop ==
    /\ pc' = "done"
    /\ site' = "none"
    /\ hist' = [hist EXCEPT !.exit_running = is_server_running,
                            !.stops = @ + 1, !.sent = <<>>]
    /\ UNCHANGED <<ck, results>>

\* main returns; line 288 calls stop_server
LeaveLoop ==
    /\ pc' = "stop183"
    /\ site' = "line288"
    /\ hist' = [hist EXCEPT !.exit_running = is_server_running,
                            !.stops = @ + 1, !.sent = <<>>]
    /\ UNCHANGED <<ck, results>>

\* While42 as "while True": the event is tested at line 57 only
While42_NoTest ==
    /\ pc = "while42"
    /\ pc' = "if44"
    /\ hist' = [hist EXCEPT !.stops = 0, !.sent = <<>>]
    /\ UNCHANGED <<shutdown_event, geyser_process, alive, fs, VERSION_FILE, site,
                   ck, results, chk, dl, ret, wait_timeout>>

\* line 42: while not shutdown_event.is_set()
While42 ==
    /\ pc = "while42"
    /\ IF shutdown_event
         THEN LeaveLoop
         ELSE /\ pc' = "if44"
              /\ hist' = [hist EXCEPT !.stops = 0, !.sent = <<>>]
              /\ UNCHANGED <<site, ck, results>>
    /\ UNCHANGED <<shutdown_event, geyser_process, alive, fs, VERSION_FILE, chk,
                   dl, ret, wait_timeout>>

\* If44 without the test of line 44: checks and start in every iteration
If44_Unguarded ==
    /\ pc = "if44"
    /\ BeginChecks("line47")
    /\ UNCHANGED <<shutdown_event, geyser_process, alive, fs, VERSION_FILE, chk,
                   dl, ret, wait_timeout>>

\* line 44: if not is_server_running()
If44 ==
    /\ pc = "if44"
    /\ IF ~is_server_running
         THEN BeginChecks("line47")
         ELSE pc' = "if50" /\ UNCHANGED <<site, ck, results, hist>>
    /\ UNCHANGED <<shutdown_event, geyser_process, alive, fs, VERSION_FILE, chk,
                   dl, ret, wait_timeout>>

\* If50 without the wait of line 70
If50_NoRetryWait ==
    /\ pc = "if50"
    /\ IF is_server_running
         THEN pc' = "wait55" /\ wait_timeout' = RunWait
         ELSE pc' = "while42" /\ wait_timeout' = wait_timeout
    /\ UNCHANGED <<shutdown_event, geyser_process, alive, fs, VERSION_FILE, site,
                   ck, results, chk, dl, ret, hist>>

\* line 50: if is_server_running(), entering one of the two waits
If50 ==
    /\ pc = "if50"
    /\ IF is_server_running
         THEN pc' = "wait55" /\ wait_timeout' = RunWait
         ELSE pc' = "wait70" /\ wait_timeout' = RetryWait
    /\ UNCHANGED <<shutdown_event, geyser_process, alive, fs, VERSION_FILE, site,
                   ck, results, chk, dl, ret, hist>>

\* line 55: shutdown_event.wait(timeout=900) returns: the event is set, or the
\* time has elapsed
Wait55 ==
    /\ pc = "wait55"
    /\ pc' = "if57"
    /\ wait_timeout' = 0
    /\ hist' = [hist EXCEPT !.start = "none"]
    /\ UNCHANGED <<shutdown_event, geyser_process, alive, fs, VERSION_FILE, site,
                   ck, results, chk, dl, ret>>

\* If57 without the break of lines 57-58
If57_NoBreak ==
    /\ pc = "if57"
    /\ pc' = "if60"
    /\ UNCHANGED <<shutdown_event, geyser_process, alive, fs, VERSION_FILE, site,
                   ck, results, chk, dl, ret, wait_timeout, hist>>

\* lines 57-58: if shutdown_event.is_set(): break
If57 ==
    /\ pc = "if57"
    /\ IF shutdown_event
         THEN LeaveLoop
         ELSE pc' = "if60" /\ UNCHANGED <<site, ck, results, hist>>
    /\ UNCHANGED <<shutdown_event, geyser_process, alive, fs, VERSION_FILE, chk,
                   dl, ret, wait_timeout>>

\* line 60: if is_server_running(), the periodic check cycle
If60 ==
    /\ pc = "if60"
    /\ IF is_server_running
         THEN BeginChecks("line63")
         ELSE pc' = "while42" /\ UNCHANGED <<site, ck, results, hist>>
    /\ UNCHANGED <<shutdown_event, geyser_process, alive, fs, VERSION_FILE, chk,
                   dl, ret, wait_timeout>>

\* lines 70 and 74: shutdown_event.wait(timeout=30) returns, and the loop goes
\* on with its next iteration
Wait30 ==
    /\ pc \in {"wait70", "wait74"}
    /\ pc' = "while42"
    /\ wait_timeout' = 0
    /\ site' = "none"
    /\ ck' = 0
    /\ results' = <<>>
    /\ hist' = [hist EXCEPT !.start = "none"]
    /\ UNCHANGED <<shutdown_event, geyser_process, alive, fs, VERSION_FILE, chk,
                   dl, ret>>


(* ------------------------- version record ------------------------------ *)
\* get_local_versions, lines 268-276: {} when the file is absent or corrupt
get_local_versions ==
    IF VERSION_FILE.kind = "json" THEN VERSION_FILE.json ELSE EmptyDict

\* update_local_version that writes back what it read
update_local_version_Stale(key, value) ==
    [kind |-> "json", json |-> get_local_versions]

\* update_local_version, lines 278-282, when write_text succeeds
update_local_version(key, value) ==
    [kind |-> "json", json |-> Put(get_local_versions, key, value)]

\* version.json after a write_text that raised: the open failed (unchanged), or
\* the file was truncated and not completely written
FailedWrites == {VERSION_FILE, [kind |-> "corrupt", json |-> EmptyDict]}

(* ------------------------ remote metadata ------------------------------ *)
Missing == -1

\* What get_api_response returns for a build-number endpoint: None (ok = FALSE),
\* or a JSON object in which each of the fields read by the checker may be absent
\* (build = Missing, version = FALSE, sha256 = <<>>); sha256 may be a non-string.
NumericInfos ==
    {[ok |-> FALSE, empty |-> FALSE, build |-> Missing, version |-> FALSE,
      sha256 |-> <<>>],
     [ok |-> TRUE, empty |-> TRUE, build |-> Missing, version |-> FALSE,
      sha256 |-> <<>>]}
    \cup [ok : {TRUE}, empty : {FALSE}, build : {Missing} \cup (0..MaxBuild),
          version : BOOLEAN, sha256 : {<<>>, JsonNull} \cup ExpectedDigests]

Tags == {"v1", "v2"}

\* One entry of "assets": whether its name is MCXboxBroadcastExtension.jar,
\* whether it has browser_download_url, and its digest (<<>>: no such key)
Assets ==
    {[name |-> FALSE, url |-> TRUE, digest |-> <<>>],
     [name |-> TRUE, url |-> FALSE, digest |-> <<>>]}
    \cup [name : {TRUE}, url : {TRUE},
          digest : {<<>>, JsonNull}
                   \cup {<<"sha256:">> \o Sha256Hex(p) : p \in Advertised}]

AssetLists == UNION {[1..n -> Assets] : n \in 0..MaxAssets}

\* What get_api_response returns for the releases endpoint
TagInfos ==
    {[ok |-> FALSE, empty |-> FALSE, tag_name |-> NoneTag, assets |-> <<>>],
     [ok |-> TRUE, empty |-> TRUE, tag_name |-> NoneTag, assets |-> <<>>]}
    \cup [ok : {TRUE}, empty : {FALSE}, tag_name : Tags \cup {NoneTag},
          assets : AssetLists]

\* "if not remote_info": None, or an empty JSON object
Falsy(info) == ~info.ok \/ info.empty

(* --------------------------- checkers ---------------------------------- *)
\* a checker returns value (True / False) or raises
CheckerConcludes(outcome) ==
    /\ pc' = "ck_ret"
    /\ ret' = outcome

\* the call download_and_verify(url, destination, expected_sha256)
CallDownload(destination, expected) ==
    /\ pc' = "dl236"
    /\ dl' = [NoDownload EXCEPT !.destination = destination,
                                !.expected = expected, !.before = fs]
    /\ ret' = "none"

\* the comparison of line 104 with >= for >
NumericNewer_OrEqual(remote, local) == remote >= local

\* remote_build > local_build
NumericNewer(remote, local) == remote > local

\* remote_version != local_version
TagNewer(remote, local) == remote # local

\* check_geyser_standalone / check_geyser_connect, lines 96-108 and 118-130, up
\* to the call of download_and_verify
CheckNumericBegin ==
    /\ pc = "ck_begin"
    /\ Checkers[ck] \in NumericKeys
    /\ LET key == Checkers[ck]
           local_build == Get(get_local_versions, key, DefaultBuild)
       IN \E info \in NumericInfos :
            LET remote_build == IF info.build = Missing THEN DefaultBuild
                                ELSE info.build
                newer == ~Falsy(info) /\ NumericNewer(remote_build, local_build)
            IN /\ chk' = [NoCheck EXCEPT !.key = key,
                                         !.fetched = ~Falsy(info),
                                         !.newer = newer,
                                         !.remote_build = remote_build]
               /\ IF Falsy(info) \/ ~newer
                    THEN CheckerConcludes("False") /\ dl' = dl
                    ELSE IF ~info.version \/ info.sha256 = <<>>
                           THEN CheckerConcludes("raise") /\ dl' = dl
                           ELSE CallDownload(Location(key), info.sha256)
    /\ hist' = [hist EXCEPT !.pre_fs = fs, !.pre_version = VERSION_FILE]
    /\ UNCHANGED <<shutdown_event, geyser_process, alive, fs, VERSION_FILE, site,
                   ck, results, wait_timeout>>

\* check_mcxbox_broadcast, lines 140-149, up to the loop over the assets
CheckTagBegin ==
    /\ pc = "ck_begin"
    /\ Checkers[ck] \notin NumericKeys
    /\ LET key == Checkers[ck]
           local_version == Get(get_local_versions, key, DefaultTag)
       IN \E info \in TagInfos :
            LET newer == ~Falsy(info) /\ TagNewer(info.tag_name, local_version)
            IN /\ chk' = [NoCheck EXCEPT !.key = key,
                                         !.fetched = ~Falsy(info),
                                         !.newer = newer,
                                         !.remote_tag = info.tag_name,
                                         !.assets = IF newer THEN info.assets
                                                    ELSE <<>>]
               /\ IF Falsy(info) \/ ~newer
                    THEN CheckerConcludes("False")
                    ELSE pc' = "for150" /\ ret' = "none"
    /\ hist' = [hist EXCEPT !.pre_fs = fs, !.pre_version = VERSION_FILE]
    /\ UNCHANGED <<shutdown_event, geyser_process, alive, fs, VERSION_FILE, site,
                   ck, results, dl, wait_timeout>>

\* check_mcxbox_broadcast, lines 150-154 and 159: one turn of the loop over the
\* assets, or its end
For150 ==
    /\ pc = "for150"
    /\ IF chk.assets = <<>>
         THEN CheckerConcludes("False") /\ UNCHANGED <<chk, dl>>
         ELSE LET asset == Head(chk.assets)
              IN IF ~asset.name
                   THEN /\ chk' = [chk EXCEPT !.assets = Tail(chk.assets)]
                        /\ UNCHANGED <<pc, ret, dl>>
                   ELSE IF ~asset.url \/ asset.digest \in {<<>>, JsonNull}
                          THEN CheckerConcludes("raise") /\ UNCHANGED <<chk, dl>>
                          ELSE /\ chk' = [chk EXCEPT !.assets = Tail(chk.assets)]
                               /\ CallDownload(Location(chk.key),
                                               StripPrefix(asset.digest))
    /\ UNCHANGED <<shutdown_event, geyser_process, alive, fs, VERSION_FILE, site,
                   ck, results, wait_timeout, hist>>


(* ----------------------- download_and_verify --------------------------- *)
\* the download leaves the try block with a result and enters "finally"
DownloadLeavesTry(result, step) ==
    /\ pc' = "dl265"
    /\ dl' = [dl EXCEPT !.result = result, !.left_at = step]

\* line 236: destination.parent.mkdir, outside the try block: an OSError (only
\* /data/extensions may have to be created) escapes the call
Dl236 ==
    /\ pc = "dl236"
    /\ \/ pc' = "dl241" /\ dl' = dl
       \/ /\ dl.destination # GEYSER_STANDALONE_LOCATION
          /\ pc' = "dl_ret"
          /\ dl' = [dl EXCEPT !.result = "raise", !.left_at = "mkdir"]
    /\ chk' = [chk EXCEPT !.downloads = chk.downloads + 1]
    /\ UNCHANGED <<shutdown_event, geyser_process, alive, fs, VERSION_FILE, site,
                   ck, results, ret, wait_timeout, hist>>

\* lines 241-243: requests.get and raise_for_status, then open(temp_dest, "wb");
\* the server then streams some payload
Dl241 ==
    /\ pc = "dl241"
    /\ \/ DownloadLeavesTry("False", "get") /\ fs' = fs
       \/ \E payload \in Payloads :
            /\ fs' = WriteFile(fs, TempDest(dl.destination), <<>>)
            /\ dl' = [dl EXCEPT !.stream = payload]
            /\ pc' = "dl244"
    /\ UNCHANGED <<shutdown_event, geyser_process, alive, VERSION_FILE, site, ck,
                   results, chk, ret, wait_timeout, hist>>

\* lines 244-245: the next chunk is written to the temporary file, the stream
\* ends, or iter_content / write raises
Dl244 ==
    /\ pc = "dl244"
    /\ IF dl.stream = <<>>
         THEN pc' = "dl248" /\ UNCHANGED <<dl, fs>>
         ELSE \/ /\ fs' = WriteFile(fs, TempDest(dl.destination),
                                    Append(fs[TempDest(dl.destination)],
                                           Head(dl.stream)))
                 /\ dl' = [dl EXCEPT !.stream = Tail(dl.stream)]
                 /\ pc' = pc
              \/ DownloadLeavesTry("False", "stream") /\ fs' = fs
    /\ UNCHANGED <<shutdown_event, geyser_process, alive, VERSION_FILE, site, ck,
                   results, chk, ret, wait_timeout, hist>>

\* a comparison that accepts every digest
DigestMismatch_Never(actual, expected) == FALSE

\* line 250: actual_sha256.lower() != expected_sha256.lower()
DigestMismatch(actual, expected) == Lower(actual) # Lower(expected)

\* lines 248-254: the digest of the temporary file against the expected one;
\* .lower() of a non-string raises AttributeError, which line 261 does not catch
Dl248 ==
    /\ pc = "dl248"
    /\ LET actual_sha256 == Sha256Hex(fs[TempDest(dl.destination)])
       IN IF dl.expected = JsonNull
            THEN DownloadLeavesTry("raise", "lower")
            ELSE IF DigestMismatch(actual_sha256, dl.expected)
                   THEN DownloadLeavesTry("False", "mismatch")
                   ELSE pc' = "dl257" /\ dl' = dl
    /\ UNCHANGED <<shutdown_event, geyser_process, alive, fs, VERSION_FILE, site,
                   ck, results, chk, ret, wait_timeout, hist>>

\* temp_dest.rename(destination): the destination now has the temporary file's
\* content and the temporary file is gone
Rename(files, temp_dest, destination) ==
    Unlink(WriteFile(files, destination, files[temp_dest]), temp_dest)

\* lines 257-259: the rename, or its IOError
Dl257 ==
    /\ pc = "dl257"
    /\ \/ /\ fs' = Rename(fs, TempDest(dl.destination), dl.destination)
          /\ DownloadLeavesTry("True", "return")
       \/ DownloadLeavesTry("False", "rename") /\ fs' = fs
    /\ UNCHANGED <<shutdown_event, geyser_process, alive, VERSION_FILE, site, ck,
                   results, chk, ret, wait_timeout, hist>>

\* a finally block that removes nothing
Cleanup_Skipped(files, temp_dest) == files

\* lines 265-266: if temp_dest.exists(): temp_dest.unlink()
Cleanup(files, temp_dest) ==
    IF Exists(files, temp_dest) THEN Unlink(files, temp_dest) ELSE files

\* lines 264-266: the finally block, then the call concludes
Dl265 ==
    /\ pc = "dl265"
    /\ fs' = Cleanup(fs, TempDest(dl.destination))
    /\ pc' = "dl_ret"
    /\ UNCHANGED <<shutdown_event, geyser_process, alive, VERSION_FILE, site, ck,
                   results, chk, dl, ret, wait_timeout, hist>>

\* the value the active checker records on success
RemoteVersion == IF chk.key \in NumericKeys THEN chk.remote_build ELSE chk.remote_tag

\* lines 109-114, 131-136, 154-156: the checker after download_and_verify:
\* on True the record is written (write_text may raise) and the checker returns
\* True; on False a numeric checker returns False and the tag checker goes on
\* with the next asset; an exception of the call propagates
DlRet ==
    /\ pc = "dl_ret"
    /\ CASE dl.result = "True" ->
              \/ /\ VERSION_FILE' = update_local_version(chk.key, RemoteVersion)
                 /\ chk' = [chk EXCEPT !.writes = chk.writes + 1]
                 /\ CheckerConcludes("True")
              \/ /\ VERSION_FILE' \in FailedWrites
                 /\ chk' = chk
                 /\ CheckerConcludes("raise")
         [] dl.result = "False" ->
              /\ IF chk.key \in NumericKeys
                   THEN CheckerConcludes("False")
                   ELSE pc' = "for150" /\ ret' = ret
              /\ UNCHANGED <<VERSION_FILE, chk>>
         [] OTHER ->
              /\ CheckerConcludes("raise")
              /\ UNCHANGED <<VERSION_FILE, chk>>
    /\ UNCHANGED <<shutdown_event, geyser_process, alive, fs, site, ck, results,
                   dl, wait_timeout, hist>>

(* ------------------------ run_update_checks ---------------------------- *)
\* a loop without the handler of line 72: the exception ends the program
ExceptionEscapes ==
    /\ pc' = "done"
    /\ wait_timeout' = wait_timeout

\* lines 72-74: except Exception at loop level, then shutdown_event.wait(30)
LoopCatches ==
    /\ pc' = "wait74"
    /\ wait_timeout' = RetryWait

\* lines 82-86: a checker has concluded; its value is appended to results and
\* the next checker is called; an exception propagates to line 72
CkRet ==
    /\ pc = "ck_ret"
    /\ IF ret = "raise"
         THEN /\ LoopCatches
              /\ UNCHANGED <<ck, results>>
         ELSE /\ results' = Append(results, ret = "True")
              /\ wait_timeout' = wait_timeout
              /\ IF ck < Len(Checkers)
                   THEN pc' = "ck_begin" /\ ck' = ck + 1
                   ELSE pc' = "ruc87" /\ ck' = ck
    /\ chk' = NoCheck
    /\ dl' = NoDownload
    /\ ret' = "none"
    /\ hist' = [hist EXCEPT !.pre_fs = EmptyDict,
                            !.pre_version = NoHistory.pre_version]
    /\ UNCHANGED <<shutdown_event, geyser_process, alive, fs, VERSION_FILE, site>>

\* updates_found = any(results)
any(rs) == \E i \in 1..Len(rs) : rs[i]

\* lines 87-92 and the caller: line 48 starts the server whatever the result,
\* lines 63-65 stop the server when updates were installed
Ruc87 ==
    /\ pc = "ruc87"
    /\ IF site = "line47"
         THEN pc' = "start48" /\ site' = "none"
         ELSE IF any(results)
                THEN pc' = "stop183" /\ site' = "line65"
                ELSE pc' = "while42" /\ site' = "none"
    /\ hist' = IF site # "line47" /\ any(results)
                 THEN [hist EXCEPT !.stops = 1, !.sent = <<>>]
                 ELSE hist
    /\ ck' = 0
    /\ results' = <<>>
    /\ UNCHANGED <<shutdown_event, geyser_process, alive, fs, VERSION_FILE, chk,
                   dl, ret, wait_timeout>>

(* ------------------------- specification ------------------------------- *)
Next ==
    \/ check_permissions
    \/ While42
    \/ If44
    \/ start_server
    \/ If50
    \/ Wait55
    \/ If57
    \/ If60
    \/ Wait30
    \/ CheckNumericBegin
    \/ CheckTagBegin
    \/ For150
    \/ Dl236
    \/ Dl241
    \/ Dl244
    \/ Dl248
    \/ Dl257
    \/ Dl265
    \/ DlRet
    \/ CkRet
    \/ Ruc87
    \/ Stop183
    \/ Stop190
    \/ Stop194
    \/ shutdown_handler
    \/ ChildExit

Spec == Init /\ [][Next]_vars

\* the steps of the supervisor's single thread: everything but the arrival of a
\* signal and the exit of the child
Supervisor ==
    \/ check_permissions \/ While42 \/ If44 \/ start_server \/ If50 \/ Wait55
    \/ If57 \/ If60 \/ Wait30 \/ CheckNumericBegin \/ CheckTagBegin \/ For150
    \/ Dl236 \/ Dl241 \/ Dl244 \/ Dl248 \/ Dl257 \/ Dl265 \/ DlRet \/ CkRet
    \/ Ruc87 \/ Stop183 \/ Stop190 \/ Stop194

\* The thread keeps running while it has a step to take: waits time out and
\* network calls return. Signals and child exits need not happen.
FairSpec == Spec /\ WF_vars(Supervisor)


(* ---------------------------- properties ------------------------------- *)
\* the supervisor is inside the while loop of main
InLoop == pc \notin {"perm", "fatal", "done"} /\ site # "line288"

\* the positions inside a checker or the download it calls
CheckPcs == {"ck_begin", "for150", "dl236", "dl241", "dl244", "dl248", "dl257",
             "dl265", "dl_ret", "ck_ret"}

\* the version record as the active checker found it
VersionsBefore ==
    IF hist.pre_version.kind = "json" THEN hist.pre_version.json ELSE EmptyDict

\* the active checker's remote version is not newer than the recorded one: for a
\* build number remote <= local, an absent key counting as build 0; for the tag,
\* remote equal to the recorded tag
NotNewer ==
    IF chk.key \in NumericKeys
    THEN chk.remote_build <= Get(VersionsBefore, chk.key, 0)
    ELSE chk.remote_tag = Get(VersionsBefore, chk.key, "0")

\* the version record maps the active checker's key to the remote version
RecordHasRemote ==
    /\ VERSION_FILE.kind = "json"
    /\ chk.key \in DOMAIN VERSION_FILE.json
    /\ VERSION_FILE.json[chk.key] = RemoteVersion

\* C1: the loop of main is left only when the shutdown event is set; an
\* exception raised inside an iteration is caught at loop level, is followed by
\* a wait of 30, and the loop then goes on with its next iteration.
C1_LoopEndsOnlyOnShutdown ==
    [][/\ (InLoop /\ ~InLoop') => shutdown_event
       /\ (pc = "ck_ret" /\ ret = "raise" /\ pc' # pc)
            => (pc' = "wait74" /\ wait_timeout' = RetryWait)
       /\ (pc = "wait74" /\ pc' # pc) => (pc' = "while42" /\ InLoop')]_vars

\* a checker's exception has been caught, no shutdown is requested, and the
\* loop is in the wait of 30 before its next iteration
C1_Witness == pc = "wait74" /\ wait_timeout = RetryWait /\ ~shutdown_event

\* C2: at most one child is alive in every state, and start_server is
\* only invoked with no handle held or with the held handle's process exited.
C2_AtMostOneChild ==
    /\ Cardinality(alive) <= 1
    /\ pc = "start48" => (geyser_process = None \/ geyser_process \notin alive)

\* start_server is about to run while a handle to an exited child is held
C2_Witness == pc = "start48" /\ geyser_process # None /\ geyser_process \notin alive

\* C3: when the supervisor has exited after the loop, no child is
\* running, wherever the signal arrived.
C3_NoChildAtExit == pc = "done" => (alive = {} /\ shutdown_event)

\* the supervisor has exited and the child was running when the loop was left
C3_Witness == pc = "done" /\ hist.exit_running

\* C4: once the signal has arrived during the wait of 900, the loop runs
\* no check, start or restart any more: it is in that wait, at the test of line
\* 57, or past the loop in the final stop_server, after which no child is alive.
C4_ShutdownDuringWait ==
    /\ pc = "wait55" => wait_timeout = RunWait
    /\ hist.sig_in_wait =>
         /\ pc \in {"wait55", "if57"} \/ site = "line288" \/ pc = "done"
         /\ pc = "done" => alive = {}

\* the signal arrived during the wait of 900 with the child running, and the
\* supervisor has exited
C4_Witness == hist.sig_in_wait /\ pc = "done" /\ hist.exit_running

\* C5 (as stated): the check cycle of the "not running" branch always
\* runs its three checkers and is followed by the start attempt: it ends only
\* by run_update_checks returning the three results to line 48.
C5_StartAfterEveryCheckCycle ==
    (site = "line47" /\ pc \notin CheckPcs)
        => (pc = "ruc87" /\ Len(results) = Len(Checkers))

\* C6 (as stated): a checker never raises; it returns True or False.
C6_CheckersNeverRaise == pc = "ck_ret" => ret \in {"True", "False"}

\* C7: a checker that fetched metadata whose version is not newer than
\* the recorded one returns False, having called no download and written no
\* record: the files are as they were.
C7_NotNewerNoEffect ==
    (pc = "ck_ret" /\ chk.fetched /\ NotNewer)
        => /\ ret = "False"
           /\ chk.downloads = 0
           /\ chk.writes = 0
           /\ VERSION_FILE = hist.pre_version
           /\ fs = hist.pre_fs

\* a numeric checker concluded with the remote build equal to a recorded build
C7_Witness ==
    /\ pc = "ck_ret"
    /\ chk.key \in NumericKeys
    /\ chk.fetched
    /\ chk.remote_build = Get(VersionsBefore, chk.key, 0)
    /\ chk.remote_build > 0

\* C8 (as stated): a newer remote version whose download passed the
\* digest verification makes the checker return True with the record updated.
C8_VerifiedMeansUpdated ==
    (pc = "ck_ret" /\ chk.fetched /\ ~NotNewer
       /\ dl.left_at \in {"rename", "return"})
        => (ret = "True" /\ RecordHasRemote)

\* C8 (amended): a newer remote version whose download passed the
\* digest verification, was renamed over the destination, and whose record write
\* completed, makes the checker return True with the record mapping the
\* artifact's key to the remote version.
C8_PromotedAndWrittenMeansUpdated ==
    (pc = "ck_ret" /\ chk.fetched /\ ~NotNewer
       /\ dl.result = "True" /\ chk.writes = 1)
        => (ret = "True" /\ RecordHasRemote)

\* the standalone checker returned True after replacing an older recorded build
C8_Witness ==
    /\ pc = "ck_ret"
    /\ ret = "True"
    /\ chk.key = "geyser_standalone"
    /\ Get(VersionsBefore, chk.key, 0) > 0
    /\ chk.remote_build > Get(VersionsBefore, chk.key, 0)
    /\ RecordHasRemote

\* C9 (as stated): a check that did not return True left the
\* artifacts and the version record as they were.
C9_FailureLeavesNoPartialState ==
    (pc = "ck_ret" /\ ret # "True")
        => (fs = hist.pre_fs /\ VERSION_FILE = hist.pre_version)

\* C10: when download_and_verify concludes without success, the
\* destination is as it was before the call (absent if it was absent) and no
\* temporary file exists.
C10_FailedDownloadLeavesNothing ==
    (pc = "dl_ret" /\ dl.result # "True")
        => /\ Exists(fs, dl.destination) = Exists(dl.before, dl.destination)
           /\ Exists(fs, dl.destination)
                => fs[dl.destination] = dl.before[dl.destination]
           /\ ~Exists(fs, TempDest(dl.destination))

\* a download concluded False on a digest mismatch, after the whole payload had
\* been written to the temporary file
C10_Witness ==
    /\ pc = "dl_ret"
    /\ dl.result = "False"
    /\ dl.left_at = "mismatch"
    /\ dl.stream = <<>>

\* C11: when download_and_verify returns True, the destination holds the
\* whole received body, its digest equals the expected digest up to letter
\* case, the call left its try block at the return after the rename, every
\* other file is as before the call, and the temporary file is gone.
C11_TrueMeansVerifiedAndPromoted ==
    (pc = "dl_ret" /\ dl.result = "True")
        => /\ Exists(fs, dl.destination)
           /\ fs[dl.destination] \in Payloads
           /\ Lower(Sha256Hex(fs[dl.destination])) = Lower(dl.expected)
           /\ dl.left_at = "return"
           /\ dl.stream = <<>>
           /\ ~Exists(fs, TempDest(dl.destination))
           /\ DOMAIN fs = DOMAIN dl.before \cup {dl.destination}
           /\ \A p \in DOMAIN dl.before \ {dl.destination} : fs[p] = dl.before[p]

\* a download returned True for an expected digest given in upper case, over a
\* destination that existed before the call
C11_Witness ==
    /\ pc = "dl_ret"
    /\ dl.result = "True"
    /\ dl.expected # Sha256Hex(fs[dl.destination])
    /\ Exists(dl.before, dl.destination)

\* the positions after a stop_server call has returned
AfterStop == pc \in {"while42", "done"} /\ hist.stops >= 1

\* C12: after each stop_server call the child is not running; a
\* stop_server call made right after another one sends no signal and returns
\* at its first test.
C12_StopIdempotent ==
    /\ AfterStop => ~is_server_running
    /\ hist.stops = 2 => (hist.sent = <<>> /\ pc \in {"stop183", "done"})

\* the stop_server of line 288 has returned right after the one of line 65
C12_Witness == pc = "done" /\ hist.stops = 2

\* C13: a start_server call that finds the executable missing, or
\* whose Popen raises OSError, returns to line 50 with the handle and the
\* processes as they were and no child running; with the executable missing
\* nothing is spawned.
C13_FailedStartLeavesNoProcess ==
    [][(pc = "start48" /\ pc' # pc)
         => /\ pc' = "if50"
            /\ hist'.start \in {"missing", "oserror"}
                 => /\ geyser_process' = geyser_process
                    /\ alive' = alive
                    /\ ~is_server_running'
            /\ ~Exists(fs, GEYSER_STANDALONE_LOCATION) => hist'.start = "missing"]_vars

\* Popen has raised OSError while the handle of an exited child was held
C13_Witness ==
    /\ pc = "if50"
    /\ hist.start = "oserror"
    /\ geyser_process # None
    /\ ~is_server_running

\* C14 (as stated): when the periodic check cycle of line 63 has
\* installed an update, the running child is stopped before the loop enters a
\* wait: the loop is in no wait with that cycle's update installed and the
\* child still running.
C14_UpdateStopsChildBeforeWait ==
    (pc \in {"wait55", "wait70", "wait74"} /\ site = "line63" /\ any(results))
        => ~is_server_running

\* the order of the signals of one stop_server call, and the state it returns in
StopOrder ==
    /\ hist.sent \in {<<>>, <<"SIGTERM">>, <<"SIGTERM", "SIGKILL">>}
    /\ pc = "stop190" => (hist.sent = <<"SIGTERM">> /\ wait_timeout = GracePeriod)
    /\ pc = "stop194" => hist.sent = <<"SIGTERM">>
    /\ (AfterStop /\ hist.sent # <<>>) => geyser_process = None

\* C15: stop_server on a running child sends SIGTERM first and waits
\* with the timeout of 8; SIGKILL is sent only after that wait has timed out,
\* to a child that has not exited, and never when the wait returned because the
\* child exited; the handle is cleared on both paths.
C15_GracefulThenForced ==
    [][/\ StopOrder'
       /\ hist'.sent # hist.sent /\ hist'.sent # <<>>
            => \/ hist'.sent = <<"SIGTERM">> /\ pc = "stop183" /\ is_server_running
               \/ /\ hist'.sent = <<"SIGTERM", "SIGKILL">>
                  /\ pc = "stop194"
                  /\ geyser_process \in alive
       /\ (pc = "stop190" /\ pc' # pc /\ geyser_process \notin alive)
            => /\ pc' \in {"while42", "done"}
               /\ hist'.sent = <<"SIGTERM">>
               /\ geyser_process' = None]_vars

\* a stop_server call has returned after SIGTERM, the timeout and SIGKILL
C15_Witness ==
    /\ AfterStop
    /\ hist.sent = <<"SIGTERM", "SIGKILL">>
    /\ geyser_process = None
    /\ alive = {}

\* C16: start_server is called only when a wait has returned since the
\* call before it: after a start attempt the loop is at line 50 or in one of
\* its two waits, and when line 50 finds the child not running the loop enters
\* the wait of 30, which leads to the loop top.
C16_WaitBetweenStarts ==
    [][/\ pc' = "start48" => hist'.start = "none"
       /\ hist'.start # "none" => pc' \in {"if50", "wait55", "wait70"}
       /\ (pc = "if50" /\ pc' # pc /\ ~is_server_running)
            => (pc' = "wait70" /\ wait_timeout' = RetryWait)
       /\ (pc = "wait70" /\ pc' # pc) => pc' = "while42"]_vars

\* the child was spawned and exited before line 50: the loop is in the wait
\* of 30
C16_Witness ==
    /\ pc = "wait70"
    /\ hist.start = "spawned"
    /\ wait_timeout = RetryWait
    /\ ~shutdown_event

\* C17: every destination that exists holds a whole payload; a
\* destination gets new content only by the rename of line 257, from a
\* temporary file that holds the whole received body and whose digest equals
\* the expected one; when start_server is called no temporary file exists.
C17_DestinationNeverPartial ==
    [][/\ \A d \in Destinations : Exists(fs', d) => fs'[d] \in Payloads
       /\ \A d \in Destinations :
            (Exists(fs', d) /\ (~Exists(fs, d) \/ fs'[d] # fs[d]))
                => /\ pc = "dl257"
                   /\ d = dl.destination
                   /\ dl.stream = <<>>
                   /\ fs'[d] = fs[TempDest(d)]
                   /\ Lower(Sha256Hex(fs'[d])) = Lower(dl.expected)
       /\ pc' = "start48"
            => \A d \in Destinations : ~Exists(fs', TempDest(d))]_vars

\* a download is in progress over an existing destination: the temporary file
\* holds a part of the body and the destination its previous content
C17_Witness ==
    \E d \in Destinations :
        /\ Exists(fs, d)
        /\ Exists(fs, TempDest(d))
        /\ Len(fs[TempDest(d)]) > 0
        /\ fs[TempDest(d)] \notin Payloads
        /\ fs[d] \in Payloads

\* the child has exited without a stop_server call, and no signal has arrived
ChildCrashed ==
    /\ geyser_process # None
    /\ geyser_process \notin alive
    /\ hist.sent = <<>>
    /\ InLoop
    /\ ~shutdown_event

\* C18 (as stated): when the child has exited by itself, the
\* supervisor eventually calls start_server again, unless a signal arrives.
C18_CrashLeadsToStart == ChildCrashed ~> (pc = "start48" \/ shutdown_event)

\* C19 (as stated): start_server is not called in a state where the
\* shutdown event is set.
C19_NoStartAfterSignal == pc = "start48" => ~shutdown_event

\* C19 (amended): the shutdown event never resets; once it is set the
\* loop test of line 42 starts no new iteration; start_server is called with the
\* event set only when the signal arrived between the test of line 44 and the
\* call of line 48 of the current iteration; the supervisor exits with no child
\* alive.
C19_NoNewIterationAfterSignal ==
    [][/\ shutdown_event => shutdown_event'
       /\ (shutdown_event /\ pc = "while42" /\ pc' # pc)
            => (pc' = "stop183" /\ site' = "line288")
       /\ (pc' = "start48" /\ shutdown_event') => hist'.sig_branch
       /\ pc' = "done" => alive' = {}]_vars

\* the signal arrived between the test of line 44 and the call of line 48, and
\* start_server has spawned a child with the event set
C19_Witness ==
    /\ pc = "if50"
    /\ shutdown_event
    /\ hist.sig_branch
    /\ hist.start = "spawned"
    /\ is_server_running

\* the key is recorded alike, or absent alike, before and after the step
SameEntry(key) ==
    /\ (key \in DOMAIN get_local_versions') = (key \in DOMAIN get_local_versions)
    /\ key \in DOMAIN get_local_versions
         => get_local_versions'[key] = get_local_versions[key]

\* C20 (as stated): no step lowers the recorded build of a numeric
\* artifact, and every step that changes the record read from version.json
\* changes the entry of the active checker's key only, to a greater build when
\* the key is numeric.
C20_RecordMonotonic ==
    [][/\ \A key \in NumericKeys :
            Get(get_local_versions', key, DefaultBuild)
                >= Get(get_local_versions, key, DefaultBuild)
       /\ get_local_versions' # get_local_versions
            => /\ \A key \in Keys \ {chk.key} : SameEntry(key)
               /\ chk.key \in NumericKeys
                    => Get(get_local_versions', chk.key, DefaultBuild)
                         > Get(get_local_versions, chk.key, DefaultBuild)]_vars

====
